---- MODULE Spec2Model ----
(***************************************************************************)
(* Verification model of nfl-datamans-app:                                 *)
(*   - the in-process response cache of api.py (_DATASET_CACHE and the     *)
(*     /v1/data/player_stats handler that uses it);                        *)
(*   - the incremental warehouse loader of the improved Airflow DAG        *)
(*     (load_raw_table_incremental) with its retry wrapper.                *)
(***************************************************************************)
EXTENDS Integers, Sequences, FiniteSets, Bags, TLC

(***************************************************************************)
(* Program constants                                                       *)
(***************************************************************************)
_CACHE_TTL_SECONDS == 300
_CACHE_MAX_SIZE == 20

\* Python's None, for "no object" / "absent"
None == 0

(***************************************************************************)
(* Bounds of the model                                                     *)
(***************************************************************************)
\* number of distinct cache keys requested from an empty cache (Spec)
NumKeys == 2
\* number of distinct frame contents a loaded DataFrame can have
NumVals == 2
\* number of clock advances in one behaviour
MaxTicks == 2
\* keys beyond the capacity that are inserted in the capacity runs (SpecCap)
ExtraKeys == 1
\* number of sets in one capacity run (SpecCap)
MaxSets == 2
\* rows of a table before a load, and rows of a fetched frame
MaxRows == 2
\* request threads of the API server that run at once (SpecThreads)
NumThreads == 2
\* requests one thread serves in one behaviour (SpecThreads)
MaxCalls == 2
\* largest failure_threshold a CircuitBreaker is constructed with
MaxThreshold == 2
\* largest recovery_timeout, in seconds, a CircuitBreaker is constructed with
MaxTimeout == 2
\* last second of the circuit breaker's clock
MaxTime == 4
\* most season values one request names, seasons and seasons_csv together
MaxList == 2
\* DAG runs of nfl_datamans_dbt_improved the scheduler creates
MaxRuns == 2

VARIABLES
    now,            \* time.time(), in whole seconds
    _DATASET_CACHE, \* the dict, in insertion order: <<[key, df, timestamp], ...>>
    heap,           \* live DataFrame objects: object id -> contents
    df,             \* the DataFrame object the caller holds (None when it holds none)
    ret,            \* what the last step returned to its caller
    ghost,          \* history: key -> the contents and time of its last set
                    \* since the last clear (val = None: not set)
    scenario        \* history: the keys set so far, in order, while every set
                    \* was the first set of its key and nothing was removed
                    \* by expiry or clear (<<0>> once that is no longer so)
VARIABLES
    nsets           \* history: the sets counted in a capacity run

cacheVars == <<now, _DATASET_CACHE, heap, df, ret, ghost, scenario, nsets>>

(***************************************************************************)
(* Dict helpers (Python dict semantics, insertion ordered)                 *)
(***************************************************************************)
Keys(c) == {c[i].key : i \in DOMAIN c}

IndexOf(c, k) == CHOOSE i \in DOMAIN c : c[i].key = k

DictDel(c, i) == SubSeq(c, 1, i - 1) \o SubSeq(c, i + 1, Len(c))

\* d[k] = e : a new key goes last, an existing key keeps its position
DictPut(c, e) ==
    IF e.key \in Keys(c) THEN [c EXCEPT ![IndexOf(c, e.key)] = e]
    ELSE Append(c, e)

\* min(d.keys(), key=lambda k: d[k][1]) : the first key, in dict order, of
\* least timestamp
OldestIdx(c) ==
    CHOOSE i \in DOMAIN c :
        \A j \in DOMAIN c :
            \/ c[i].timestamp < c[j].timestamp
            \/ (c[i].timestamp = c[j].timestamp /\ i <= j)

(***************************************************************************)
(* DataFrame objects                                                       *)
(***************************************************************************)
Vals == 1..NumVals
ObjIds == 1..(_CACHE_MAX_SIZE + ExtraKeys + 2)

Referenced(c, d) == {c[i].df : i \in DOMAIN c} \cup (IF d = None THEN {} ELSE {d})

\* a fresh object: any identity not in use; `pref` is taken when it is free,
\* which keeps equal heaps equal
Fresh(c, d, pref) ==
    IF pref \notin Referenced(c, d) THEN pref
    ELSE CHOOSE o \in ObjIds : o \notin Referenced(c, d) /\
            \A p \in ObjIds : p \notin Referenced(c, d) => o <= p

\* the object a caller's new frame gets
CallerObj == _CACHE_MAX_SIZE + ExtraKeys + 2

\* df.copy() aliasing its argument
CopyAlias(c, d, o, pref) == o

\* df.copy() : a new object with the same contents (the object's identity)
CopyId(c, d, o, pref) == Fresh(c, d, pref)

\* heap after garbage collection of the unreferenced objects
Collect(h, c, d) == [o \in Referenced(c, d) |-> h[o]]

(***************************************************************************)
(* _get_cached_df                                                          *)
(***************************************************************************)
\* the freshness test with <= in place of <
IsFreshLe(t, timestamp) == t - timestamp <= _CACHE_TTL_SECONDS

\* time.time() - timestamp < _CACHE_TTL_SECONDS
IsFresh(t, timestamp) == t - timestamp < _CACHE_TTL_SECONDS

\* the lookup is a hit
Hit(c, k, t) == k \in Keys(c) /\ IsFresh(t, c[IndexOf(c, k)].timestamp)

\* a hit that restamps the entry (recency tracking)
GetCacheTouch(c, k, t) ==
    IF k \in Keys(c) /\ ~IsFresh(t, c[IndexOf(c, k)].timestamp)
    THEN DictDel(c, IndexOf(c, k))
    ELSE IF k \in Keys(c)
    THEN [c EXCEPT ![IndexOf(c, k)].timestamp = t]
    ELSE c

\* the dict after _get_cached_df(k): an expired entry is deleted
GetCache(c, k, t) ==
    IF k \in Keys(c) /\ ~IsFresh(t, c[IndexOf(c, k)].timestamp)
    THEN DictDel(c, IndexOf(c, k))
    ELSE c

(***************************************************************************)
(* _set_cached_df                                                          *)
(***************************************************************************)
\* eviction that never happens
EvictNever(c) == c

\* if len(_DATASET_CACHE) >= _CACHE_MAX_SIZE: del _DATASET_CACHE[oldest_key]
Evict(c) ==
    IF Len(c) >= _CACHE_MAX_SIZE THEN DictDel(c, OldestIdx(c)) ELSE c

\* the dict after _set_cached_df(k, df), `copy` being the stored df.copy()
SetCache(c, k, copy, t) ==
    DictPut(Evict(c), [key |-> k, df |-> copy, timestamp |-> t])

\* clear_cache(): _DATASET_CACHE = {}
ClearedCache == << >>

(***************************************************************************)
(* cache_status                                                            *)
(***************************************************************************)
StatusEntries(c, t) ==
    [i \in DOMAIN c |->
        [key |-> c[i].key,
         age_seconds |-> t - c[i].timestamp,
         expires_in_seconds |->
            IF _CACHE_TTL_SECONDS - (t - c[i].timestamp) > 0
            THEN _CACHE_TTL_SECONDS - (t - c[i].timestamp) ELSE 0]]

(***************************************************************************)
(* History of the run                                                      *)
(***************************************************************************)
AllKeys == 1..(_CACHE_MAX_SIZE + ExtraKeys)

Broken == <<0>>

NeverSet == [val |-> None, at |-> 0]

NoGhost == [k \in AllKeys |-> NeverSet]

\* what the cache is specified to hold for a key at time t: an entry of age
\* TTL or more is absent
Lookup(g, t) == IF t - g.at >= _CACHE_TTL_SECONDS THEN NeverSet ELSE g

\* the scenario after a set of key k
ScenarioSet(s, k) ==
    IF s = Broken THEN Broken
    ELSE IF \E i \in DOMAIN s : s[i] = k THEN Broken
    ELSE Append(s, k)

NoReport == << >>

Ret(op, k, v, st, rep) ==
    [op |-> op, key |-> k, val |-> v, status |-> st, report |-> rep]

(***************************************************************************)
(* Cache operations.  A caller's frame lives until its request ends: the   *)
(* steps of other requests and the passing of time find df = None.         *)
(***************************************************************************)
\* a caller calls _get_cached_df(k) and keeps what it returns
GetCached(k) ==
    LET c1 == GetCache(_DATASET_CACHE, k, now)
        hit == Hit(_DATASET_CACHE, k, now)
        src == _DATASET_CACHE[IndexOf(_DATASET_CACHE, k)].df
        o == IF hit THEN CopyId(c1, None, src, CallerObj) ELSE None
        h1 == IF hit THEN [x \in DOMAIN heap \cup {o} |->
                              IF x = o THEN heap[src] ELSE heap[x]]
              ELSE heap
    IN  /\ _DATASET_CACHE' = c1
        /\ df' = o
        /\ heap' = Collect(h1, c1, o)
        /\ ret' = Ret("get", k, IF hit THEN heap[src] ELSE None,
                      IF hit THEN "hit"
                      ELSE IF k \in Keys(_DATASET_CACHE) THEN "expired"
                      ELSE "absent", NoReport)
        /\ ghost' = [ghost EXCEPT ![k] = Lookup(ghost[k], now)]
        /\ scenario' = IF Lookup(ghost[k], now) # ghost[k] THEN Broken ELSE scenario
        /\ UNCHANGED now

\* a caller builds a frame of contents v, calls _set_cached_df(k, frame) and
\* keeps the frame
SetCached(k, v) ==
    LET arg == Fresh(_DATASET_CACHE, None, CallerObj)
        cp == CopyId(SelectSeq(_DATASET_CACHE, LAMBDA e : e.key # k), arg, arg, k)
        c1 == SetCache(_DATASET_CACHE, k, cp, now)
        h1 == [x \in DOMAIN heap \cup {arg, cp} |->
                  IF x \in {arg, cp} THEN v ELSE heap[x]]
    IN  /\ _DATASET_CACHE' = c1
        /\ df' = arg
        /\ heap' = Collect(h1, c1, arg)
        /\ ret' = Ret("set", k, None, "ok", NoReport)
        /\ ghost' = [ghost EXCEPT ![k] = [val |-> v, at |-> now]]
        /\ scenario' = ScenarioSet(scenario, k)
        /\ UNCHANGED now

\* the caller changes, in place, the frame it passed to set or got from get
Mutate(v) ==
    /\ df # None
    /\ heap[df] # v
    /\ heap' = [heap EXCEPT ![df] = v]
    /\ ret' = Ret("mutate", ret.key, None,
                  IF ret.op = "mutate" THEN ret.status ELSE ret.op, NoReport)
    /\ UNCHANGED <<now, _DATASET_CACHE, df, ghost, scenario>>

\* a clear that removes the expired entries only
ClearExpired ==
    LET c1 == SelectSeq(_DATASET_CACHE, LAMBDA e : IsFresh(now, e.timestamp))
    IN  /\ _DATASET_CACHE' = c1
        /\ df' = None
        /\ heap' = Collect(heap, c1, None)
        /\ ret' = Ret("clear", None, None, "cleared", NoReport)
        /\ ghost' = NoGhost
        /\ scenario' = Broken
        /\ UNCHANGED now

\* POST /cache/clear
ClearCache ==
    /\ _DATASET_CACHE' = ClearedCache
    /\ df' = None
    /\ heap' = Collect(heap, ClearedCache, None)
    /\ ret' = Ret("clear", None, None, "cleared", NoReport)
    /\ ghost' = NoGhost
    /\ scenario' = Broken
    /\ UNCHANGED now

\* GET /cache/status
CacheStatus ==
    /\ df' = None
    /\ heap' = Collect(heap, _DATASET_CACHE, None)
    /\ ret' = Ret("status", None, Len(_DATASET_CACHE), "ok",
                  StatusEntries(_DATASET_CACHE, now))
    /\ UNCHANGED <<now, _DATASET_CACHE, ghost, scenario>>

\* the clock: 0, TTL - 1, TTL, 2 TTL - 1, 2 TTL, ...
TicksOf(t) ==
    2 * (t \div _CACHE_TTL_SECONDS) + (IF t % _CACHE_TTL_SECONDS = 0 THEN 0 ELSE 1)

TickStep(t) == IF t % _CACHE_TTL_SECONDS = 0 THEN _CACHE_TTL_SECONDS - 1 ELSE 1

Tick ==
    /\ TicksOf(now) < MaxTicks
    /\ now' = now + TickStep(now)
    /\ df' = None
    /\ heap' = Collect(heap, _DATASET_CACHE, None)
    /\ ret' = Ret("tick", None, None, "ok", NoReport)
    /\ UNCHANGED <<_DATASET_CACHE, ghost, scenario>>

(***************************************************************************)
(* GET /v1/data/player_stats : the cache-backed request handler            *)
(***************************************************************************)
\* a failed load that is stored all the same
CacheAfterLoadAlways(c, k, ok, copy, t) == SetCache(c, k, copy, t)

\* call_dataset raising leaves the handler through HTTPException(500) before
\* _set_cached_df is reached; a loaded frame is cached
CacheAfterLoad(c, k, ok, copy, t) ==
    IF ok THEN SetCache(c, k, copy, t) ELSE c

\* the response: served from cache, computed from the load, or the load error
Respond(hit, ok) ==
    IF hit THEN "cached" ELSE IF ok THEN "loaded" ELSE "load_error"

\* one request for key k; the source collaborator, if called, returns a frame
\* of contents v (ok) or raises (~ok)
GetData(k, ok, v) ==
    LET hit == Hit(_DATASET_CACHE, k, now)
        c1 == GetCache(_DATASET_CACHE, k, now)
        src == _DATASET_CACHE[IndexOf(_DATASET_CACHE, k)].df
        arg == Fresh(c1, None, CallerObj)
        cp == CopyId(SelectSeq(c1, LAMBDA e : e.key # k), arg, arg, k)
        c2 == IF hit THEN c1 ELSE CacheAfterLoad(c1, k, ok, cp, now)
        h1 == IF hit THEN [x \in DOMAIN heap \cup {arg} |->
                              IF x = arg THEN heap[src] ELSE heap[x]]
              ELSE [x \in DOMAIN heap \cup {arg, cp} |->
                              IF x \in {arg, cp} THEN v ELSE heap[x]]
        d1 == IF hit \/ ok THEN arg ELSE None
    IN  /\ _DATASET_CACHE' = c2
        /\ df' = d1
        /\ heap' = Collect(h1, c2, d1)
        /\ ret' = Ret("get_data", k,
                      IF hit THEN heap[src] ELSE IF ok THEN v ELSE None,
                      Respond(hit, ok), NoReport)
        /\ ghost' = [ghost EXCEPT ![k] =
                        IF Lookup(ghost[k], now) # NeverSet THEN ghost[k]
                        ELSE IF ok THEN [val |-> v, at |-> now]
                        ELSE NeverSet]
        /\ scenario' = Broken
        /\ UNCHANGED now

(***************************************************************************)
(* The incremental loader: load_raw_table_incremental                      *)
(*                                                                         *)
(* A row is [id, val, season]; a column the frame or the table does not    *)
(* have reads None.  Columns are laid out (id, val, season) in frames and  *)
(* tables alike.  Rows already in the warehouse carry payload 1, fetched   *)
(* rows payload 2.  A table's primary key is "none", the data column "id"  *)
(* or a surrogate serial column "row_id" that no frame has.                *)
(***************************************************************************)
VARIABLES
    wh,     \* the warehouse: [schema, tgt, temp]
    run,    \* the call of load_raw_table_incremental in progress, if any
    last    \* history: the last attempt of _load, with the warehouse before it

loaderVars == <<wh, run, last>>

VARIABLES
    th,     \* the request threads of the API server: thread -> its frame
    dag,    \* the DAG run of the scheduler: task -> its state
    cb,     \* the CircuitBreaker object and the history of its last call
    req,    \* history: the get_data requests made and what they computed
    sched   \* the scheduler's DAG runs of nfl_datamans_dbt_improved

otherVars == <<th, dag, cb, req, sched>>

vars == <<now, _DATASET_CACHE, heap, df, ret, ghost, scenario, nsets,
          wh, run, last, th, dag, cb, req, sched>>

\* no request thread, no DAG run, no circuit breaker
Quiet ==
    /\ th = << >>
    /\ dag = << >>
    /\ cb = << >>
    /\ req = << >>
    /\ sched = << >>

\* @retry_on_db_error(max_retries=3)
max_retries == 3
\* initial_delay: float = 1.0
initial_delay == 1
\* backoff_factor: float = 2.0
backoff_factor == 2

IdVals == {1, 2, 3}
Seasons == {2023, 2024}

RECURSIVE BagsUpTo(_, _)
BagsUpTo(S, n) ==
    IF n = 0 THEN {EmptyBag}
    ELSE LET P == BagsUpTo(S, n - 1)
         IN  P \cup {b (+) SetToBag({r}) : b \in P, r \in S}

\* the rows of bag b that are in S
FilterBag(b, S) == [r \in DOMAIN b \cap S |-> b[r]]

IdsOf(b) == {r.id : r \in DOMAIN b}

UniqueIds(b) ==
    \A r \in DOMAIN b : b[r] = 1 /\ \A q \in DOMAIN b : q.id = r.id => q = r

NoTable ==
    [exists |-> FALSE, pk |-> "none", hasId |-> FALSE, hasKey |-> FALSE,
     rows |-> EmptyBag]

\* df.empty
Empty(d) == d.rows = EmptyBag

\* len(df)
Count(b) == BagCardinality(b)

\* CREATE SCHEMA IF NOT EXISTS raw_nfl; commit
EnsureSchema(w) == [w EXCEPT !.schema = TRUE]

\* a first load that creates the table and loads nothing
CreateTableEmpty(d) ==
    [exists |-> TRUE, pk |-> "none", hasId |-> d.hasId, hasKey |-> d.hasKey,
     rows |-> EmptyBag]

\* df.to_sql(dataset, if_exists='replace'): the table is made from the frame
CreateTable(d) ==
    [exists |-> TRUE, pk |-> "none", hasId |-> d.hasId, hasKey |-> d.hasKey,
     rows |-> d.rows]

\* pk_cols and all(col in df.columns for col in pk_cols)
UsablePk(t, d) == t.pk = "id" /\ d.hasId

\* ON CONFLICT DO NOTHING: conflicting rows keep their old values
UpsertKeepOld(b, d) ==
    b (+) FilterBag(d.rows, {r \in DOMAIN d.rows : r.id \notin IdsOf(b)})

\* INSERT INTO tgt SELECT * FROM temp ON CONFLICT (pk) DO UPDATE SET
\* c = EXCLUDED.c for the frame's columns c outside the key
Upsert(b, d) ==
    LET New(r) == CHOOSE x \in DOMAIN d.rows : x.id = r.id
        kept == FilterBag(b, {r \in DOMAIN b : r.id \notin IdsOf(d.rows)})
        updated == {[id |-> r.id, val |-> New(r).val,
                     season |-> IF d.hasKey THEN New(r).season ELSE r.season] :
                        r \in {x \in DOMAIN b : x.id \in IdsOf(d.rows)}}
        inserted == FilterBag(d.rows, {r \in DOMAIN d.rows : r.id \notin IdsOf(b)})
    IN  kept (+) SetToBag(updated) (+) inserted

\* the upsert statement fails when two rows of the frame have one key
UpsertFails(d) == ~UniqueIds(d.rows)

\* df[incremental_key].unique().tolist(), when the frame has the column
UniqueValues(d) == IF d.hasKey THEN {r.season : r \in DOMAIN d.rows} ELSE {}

\* DELETE FROM tgt WHERE incremental_key IN (unique_values)
DeleteIn(b, d) == FilterBag(b, {r \in DOMAIN b : r.season \notin UniqueValues(d)})

\* the DELETE names a column the table does not have
DeleteFails(t, d) == d.hasKey /\ ~t.hasKey

\* df.to_sql(dataset, if_exists='append') fails: a frame column the table
\* lacks, or no value for the NOT NULL key column "id"
AppendFails(t, d) ==
    \/ d.hasId /\ ~t.hasId
    \/ d.hasKey /\ ~t.hasKey
    \/ t.pk = "id" /\ ~d.hasId

Outcome(w, o, br, n, u) ==
    [wh |-> w, outcome |-> o, branch |-> br, loaded |-> n, updated |-> u]

\* an empty frame that is noticed only after the schema was ensured
SkippedLate(w) == Outcome(EnsureSchema(w), "skipped", "skip", 0, 0)

\* if df.empty: return {"status": "skipped", ..., "records": 0}
Skipped(w) == Outcome(w, "skipped", "skip", 0, 0)

\* df.to_sql(if_exists='replace') part way: the table is created, its rows
\* are not yet inserted
CreatedNotLoaded(d) == [CreateTable(d) EXCEPT !.rows = EmptyBag]

\* the upsert statement part way: the rows without conflict are inserted,
\* the conflicting rows are not yet updated
InsertedNotUpdated(b, d) ==
    b (+) FilterBag(d.rows, {r \in DOMAIN d.rows : r.id \notin IdsOf(b)})

\* a transaction that keeps what it did before it failed
NotRolledBack(before, part) == part

\* what is left of a transaction that fails before its commit, having done
\* part of its work: the connection is closed and the work rolled back
RolledBack(before, part) == before

\* the upsert branch; a fault at "upsert" strikes before its commit, one at
\* "cleanup" after it
UpsertBranch(w, d, fp) ==
    IF fp = "upsert" \/ UpsertFails(d)
    THEN Outcome([w EXCEPT !.tgt.rows =
                     RolledBack(@, InsertedNotUpdated(w.tgt.rows, d))],
                 "raised", "upsert", 0, 0)
    ELSE LET w3 == [w EXCEPT !.tgt.rows = Upsert(w.tgt.rows, d)]
         IN  IF fp = "cleanup" THEN Outcome(w3, "raised", "upsert", 0, 0)
             ELSE Outcome([w3 EXCEPT !.temp = FALSE], "success", "upsert",
                          Count(d.rows),
                          Count(w3.tgt.rows) - Count(w.tgt.rows))

\* the delete-then-append branch: the DELETE runs in conn's open transaction,
\* to_sql appends and commits through a connection of its own, then
\* conn.commit() commits the DELETE
AppendBranch(w, d, fp) ==
    IF fp = "delete" \/ DeleteFails(w.tgt, d)
    THEN Outcome(w, "raised", "append", 0, 0)
    ELSE IF fp = "append" \/ AppendFails(w.tgt, d)
    THEN Outcome(w, "raised", "append", 0, 0)
    ELSE IF fp = "commit"
    THEN Outcome([w EXCEPT !.tgt.rows = w.tgt.rows (+) d.rows],
                 "raised", "append", 0, 0)
    ELSE LET w3 == [w EXCEPT !.tgt.rows = DeleteIn(w.tgt.rows, d) (+) d.rows]
         IN  IF fp = "cleanup" THEN Outcome(w3, "raised", "append", 0, 0)
             ELSE Outcome([w3 EXCEPT !.temp = FALSE], "success", "append",
                          Count(d.rows), Count(d.rows))

\* one execution of _load on warehouse w, the source returning frame d;
\* fp names the statement that fails, if one does
LoadBody(w, d, fp) ==
    IF fp = "fetch" THEN Outcome(w, "raised", "fetch", 0, 0)
    ELSE IF Empty(d) THEN Skipped(w)
    ELSE IF fp = "schema" THEN Outcome(w, "raised", "schema", 0, 0)
    ELSE LET w1 == EnsureSchema(w) IN
    IF fp = "exists" THEN Outcome(w1, "raised", "exists", 0, 0)
    ELSE IF ~w1.tgt.exists
    THEN IF fp = "to_sql"
         THEN Outcome([w1 EXCEPT !.tgt = RolledBack(@, CreatedNotLoaded(d))],
                      "raised", "create", 0, 0)
         ELSE Outcome([w1 EXCEPT !.tgt = CreateTable(d)], "success", "create",
                      Count(d.rows), 0)
    ELSE IF fp = "to_sql" THEN Outcome(w1, "raised", "temp", 0, 0)
    ELSE LET w2 == [w1 EXCEPT !.temp = TRUE] IN
    IF fp = "pkquery" THEN Outcome(w2, "raised", "pkquery", 0, 0)
    ELSE IF UsablePk(w2.tgt, d) THEN UpsertBranch(w2, d, fp)
    ELSE AppendBranch(w2, d, fp)

FailPoints ==
    {"fetch", "schema", "exists", "to_sql", "pkquery", "upsert", "delete",
     "append", "commit", "cleanup"}

\* what an attempt can raise: whatever call_dataset raises ("source"), a
\* psycopg2 error, or another exception from the database layer
ExcClasses == {"source", "psycopg2", "other"}

\* exceptions=(Exception,)
RetryableAny(exc) == TRUE

\* exceptions=(OperationalError, InterfaceError, DatabaseError) of psycopg2
Retryable(exc) == exc = "psycopg2"

Idle ==
    [status |-> "idle", attempt |-> 0, delay |-> initial_delay, sleeps |-> << >>,
     calls |-> 0, srcFails |-> 0, pass |-> 1,
     df |-> [hasId |-> TRUE, hasKey |-> TRUE, rows |-> EmptyBag]]

NoAttempt ==
    [pre |-> [schema |-> FALSE, tgt |-> NoTable, temp |-> FALSE],
     df |-> Idle.df, outcome |-> "none", branch |-> "none", loaded |-> 0,
     updated |-> 0, exc |-> "none", attempt |-> 0, fault |-> "none"]

\* the frames of at most n rows that the source can return: with or
\* without the column "id", with or without the incremental key column
FramesWith(hasId, hasKey, n) ==
    {[hasId |-> hasId, hasKey |-> hasKey, rows |-> b] :
        b \in BagsUpTo([id : IF hasId THEN IdVals ELSE {None}, val : {2},
                         season : IF hasKey THEN Seasons ELSE {None}], n)}

Frames(n) ==
    UNION {FramesWith(i, k, n) : i \in BOOLEAN, k \in BOOLEAN}

\* the tables of at most n rows that a load can find in the warehouse
Tables(n) ==
    {NoTable} \cup
    {t \in [exists : {TRUE}, pk : {"none", "id", "row_id"}, hasId : {TRUE},
            hasKey : {TRUE},
            rows : BagsUpTo([id : IdVals, val : {1}, season : Seasons], n)] :
        t.pk = "id" => UniqueIds(t.rows)}

Warehouses(n) ==
    {w \in [schema : BOOLEAN, tgt : Tables(n), temp : {FALSE}] :
        w.tgt.exists => w.schema}

\* a task calls load_raw_table_incremental; the source holds frame d
StartRun(d) ==
    /\ run.status = "idle"
    /\ run' = [Idle EXCEPT !.status = "running", !.df = d]
    /\ UNCHANGED <<wh, last>>

\* a wrapper that sleeps and goes on after the final failure as well
AfterRaiseOnceMore(r, exc) ==
    IF Retryable(exc) /\ r.attempt < max_retries
    THEN [r EXCEPT !.attempt = @ + 1,
                   !.sleeps = Append(@, r.delay),
                   !.delay = @ * backoff_factor]
    ELSE [r EXCEPT !.status = "raised"]

\* the wrapper of retry_with_backoff after an attempt that raised exc
AfterRaise(r, exc) ==
    IF Retryable(exc) /\ r.attempt < max_retries - 1
    THEN [r EXCEPT !.attempt = @ + 1,
                   !.sleeps = Append(@, r.delay),
                   !.delay = @ * backoff_factor]
    ELSE [r EXCEPT !.status = "raised"]

\* one iteration of the wrapper's loop: _load runs once; fp and exc say
\* where it fails and with what ("none": nowhere)
LoadAttempt(fp, exc) ==
    /\ run.status = "running"
    /\ (fp = "fetch") <=> (exc = "source")
    /\ LET out == LoadBody(wh, run.df, fp)
           r1 == [run EXCEPT !.calls = @ + 1,
                             !.srcFails = @ + (IF fp = "fetch" THEN 1 ELSE 0)]
           \* a statement that fails on the data raises through SQLAlchemy
           e == IF fp = "none" THEN "other" ELSE exc
       IN  /\ wh' = out.wh
           /\ last' = [pre |-> wh, df |-> run.df, outcome |-> out.outcome,
                       branch |-> out.branch, loaded |-> out.loaded,
                       updated |-> out.updated,
                       exc |-> IF out.outcome = "raised" THEN e ELSE "none",
                       attempt |-> run.attempt, fault |-> fp]
           /\ run' = IF out.outcome = "raised" THEN AfterRaise(r1, e)
                     ELSE [r1 EXCEPT !.status = "done"]

(***************************************************************************)
(* Specification of the cache from construction, over a few keys           *)
(***************************************************************************)
SmallKeys == 1..NumKeys

\* no load has been called
LoaderIdle ==
    /\ wh = NoAttempt.pre
    /\ run = Idle
    /\ last = NoAttempt

InitCache ==
    /\ now = 0
    /\ _DATASET_CACHE = << >>
    /\ heap = << >>
    /\ df = None
    /\ ret = Ret("init", None, None, "ok", NoReport)
    /\ ghost = NoGhost
    /\ scenario = Broken
    /\ nsets = 0

Init == InitCache /\ LoaderIdle /\ Quiet

Next ==
    \/ \E k \in SmallKeys : GetCached(k)
    \/ \E k \in SmallKeys, v \in Vals : SetCached(k, v)
    \/ ClearCache
    \/ CacheStatus
    \/ Tick

Spec ==
    Init /\ [][Next /\ UNCHANGED <<nsets, loaderVars, otherVars>>]_vars

(***************************************************************************)
(* Specification of callers that change the frames they hold               *)
(***************************************************************************)
NextIso ==
    \/ \E k \in SmallKeys : GetCached(k)
    \/ \E k \in SmallKeys, v \in Vals : SetCached(k, v)
    \/ \E v \in Vals : Mutate(v)

SpecIso ==
    Init /\ [][NextIso /\ UNCHANGED <<nsets, loaderVars, otherVars>>]_vars

(***************************************************************************)
(* Specification of requests to /v1/data/player_stats                      *)
(***************************************************************************)
NextData ==
    \/ \E k \in SmallKeys, v \in Vals : GetData(k, TRUE, v)
    \/ \E k \in SmallKeys : GetData(k, FALSE, None)
    \/ Tick

SpecData ==
    Init /\ [][NextData /\ UNCHANGED <<nsets, loaderVars, otherVars>>]_vars

(***************************************************************************)
(* Specification of a cache near its capacity: _CACHE_MAX_SIZE - 1 keys    *)
(* have been set at time 0, and requests go on with the keys beyond them   *)
(* and with the oldest ones                                                *)
(***************************************************************************)
Prefilled == _CACHE_MAX_SIZE - 1

RECURSIVE Fill(_)
Fill(n) == IF n = 0 THEN << >> ELSE SetCache(Fill(n - 1), n, n, 0)

\* the keys of the requests: the oldest key and the keys not yet set
CapKeys == {1} \cup ((Prefilled + 1)..(_CACHE_MAX_SIZE + ExtraKeys))

\* _CACHE_MAX_SIZE - 1 keys were set at time 0
NearCapacity ==
    /\ now = 0
    /\ _DATASET_CACHE = Fill(Prefilled)
    /\ heap = [o \in 1..Prefilled |-> 1]
    /\ df = None
    /\ ret = Ret("init", None, None, "ok", NoReport)
    /\ ghost = [k \in AllKeys |->
                  IF k <= Prefilled THEN [val |-> 1, at |-> 0] ELSE NeverSet]
    /\ scenario = [i \in 1..Prefilled |-> i]
    /\ nsets = 0

InitCap == NearCapacity /\ LoaderIdle /\ Quiet

NextCap ==
    \/ \E k \in CapKeys : GetCached(k) /\ UNCHANGED nsets
    \/ \E k \in CapKeys : SetCached(k, 1) /\ nsets < MaxSets /\ nsets' = nsets + 1
    \/ ClearCache /\ UNCHANGED nsets
    \/ CacheStatus /\ UNCHANGED nsets
    \/ Tick /\ UNCHANGED nsets

SpecCap ==
    InitCap /\ [][NextCap /\ UNCHANGED <<loaderVars, otherVars>>]_vars

(***************************************************************************)
(* Claims about the response cache                                         *)
(***************************************************************************)
\* C1: a get of key k returns the contents last set for k while less than
\* 300 seconds have passed since that set, and returns None, leaving no
\* entry for k, once 300 seconds or more have passed.
C1_SetThenGet ==
    ret.op = "get" =>
        /\ ret.val = ghost[ret.key].val
        /\ (ghost[ret.key].val = None => ret.key \notin Keys(_DATASET_CACHE))

\* a get that found its entry expired, 300 seconds or more after the set
C1_Witness ==
    /\ ret.op = "get"
    /\ ret.status = "expired"
    /\ ret.val = None
    /\ now >= _CACHE_TTL_SECONDS
    /\ ret.key \notin Keys(_DATASET_CACHE)

\* C2: while every set so far was the first set of its key and all of them
\* are within the TTL, the retrievable keys are exactly the (at most 20)
\* most recently set ones, whatever gets came in between.
Retrievable == {k \in AllKeys : Hit(_DATASET_CACHE, k, now)}

LastInserted(s) ==
    {s[i] : i \in {j \in DOMAIN s : j > Len(s) - _CACHE_MAX_SIZE}}

C2_KeepsMostRecent ==
    (scenario # Broken /\ now - ghost[scenario[1]].at < _CACHE_TTL_SECONDS)
        => Retrievable = LastInserted(scenario)

\* more than 20 distinct keys were set, with a get in between, within the TTL
C2_Witness ==
    /\ scenario # Broken
    /\ Len(scenario) = _CACHE_MAX_SIZE + ExtraKeys
    /\ now > 0
    /\ now < _CACHE_TTL_SECONDS
    /\ ret.op = "get"
    /\ ret.status = "hit"

\* C3: the cache never holds more than _CACHE_MAX_SIZE entries nor two
\* entries of one key.
C3_Bounded ==
    /\ Len(_DATASET_CACHE) <= _CACHE_MAX_SIZE
    /\ Cardinality(Keys(_DATASET_CACHE)) = Len(_DATASET_CACHE)

\* a set into the full cache, which evicted the oldest key
C3_Witness ==
    /\ ret.op = "set"
    /\ Len(_DATASET_CACHE) = _CACHE_MAX_SIZE
    /\ 1 \notin Keys(_DATASET_CACHE)

\* C4: whatever callers do to the frames they passed to set or got from
\* get, every cached entry keeps the contents it was set with.
C4_Isolated ==
    \A i \in DOMAIN _DATASET_CACHE :
        heap[_DATASET_CACHE[i].df] = ghost[_DATASET_CACHE[i].key].val

\* a caller changed the frame a get returned; the entry differs from it
C4_Witness ==
    /\ ret.op = "mutate"
    /\ ret.status = "get"
    /\ ret.key \in Keys(_DATASET_CACHE)
    /\ heap[df] # heap[_DATASET_CACHE[IndexOf(_DATASET_CACHE, ret.key)].df]

\* C10: a request whose load fails answers with the load error and leaves
\* the cache without an entry for its key and otherwise as it was; the next
\* request for that key is not served from the cache.
C10_FailureNotCached ==
    /\ [][(ret'.op = "get_data" /\ ret'.status = "load_error") =>
            /\ ret'.key \notin Keys(_DATASET_CACHE')
            /\ _DATASET_CACHE' =
                 SelectSeq(_DATASET_CACHE, LAMBDA e : e.key # ret'.key)]_cacheVars
    /\ [][\A k \in SmallKeys :
            (GetData(k, FALSE, None) /\ ~Hit(_DATASET_CACHE, k, now)) =>
                ret'.status = "load_error"]_cacheVars
    /\ [][(ret.op = "get_data" /\ ret.status = "load_error"
           /\ ret'.op = "get_data" /\ ret'.key = ret.key) =>
                ret'.status # "cached"]_cacheVars

\* a load failed on a miss while another key was cached
C10_Witness ==
    /\ ret.op = "get_data"
    /\ ret.status = "load_error"
    /\ Len(_DATASET_CACHE) > 0
    /\ now >= _CACHE_TTL_SECONDS

\* C15: clear_cache removes every entry, whatever the cache held: right
\* after it the cache is empty, _get_cached_df returns absent for every key
\* and cache_status reports cache_size 0 and no entries.
C15_ClearRemovesAll ==
    /\ [](ret.op = "clear" => _DATASET_CACHE = << >>)
    /\ [][(ret.op = "clear" /\ ret'.op = "get") =>
            (ret'.val = None /\ ret'.status = "absent")]_vars
    /\ [][(ret.op = "clear" /\ ret'.op = "status") =>
            (ret'.val = 0 /\ ret'.report = << >>)]_vars

\* a cache that was at its capacity has just been cleared
C15_Witness ==
    /\ ret.op = "clear"
    /\ nsets > 0
    /\ _DATASET_CACHE = << >>

\* C16: cache_status returns one record for each live entry (age below the
\* TTL) and none for an entry of age TTL or more; expires_in_seconds is
\* max(0, TTL - age_seconds), never negative; cache_size is the number of
\* records.
C16_StatusLiveOnly ==
    ret.op = "status" =>
        /\ \A i \in DOMAIN ret.report :
              ret.report[i].age_seconds < _CACHE_TTL_SECONDS
        /\ \A k \in AllKeys :
              Lookup(ghost[k], now).val # None =>
                  \E i \in DOMAIN ret.report : ret.report[i].key = k
        /\ \A i \in DOMAIN ret.report :
              /\ ret.report[i].expires_in_seconds >= 0
              /\ ret.report[i].expires_in_seconds \in
                    {0, _CACHE_TTL_SECONDS - ret.report[i].age_seconds}
              /\ ret.report[i].expires_in_seconds >=
                    _CACHE_TTL_SECONDS - ret.report[i].age_seconds
        /\ ret.val = Len(ret.report)

(***************************************************************************)
(* Specification of the loader without faults: a warehouse in any of its   *)
(* starting states, one call of load_raw_table_incremental on it           *)
(***************************************************************************)
InitLoader ==
    /\ InitCache
    /\ Quiet
    /\ wh \in Warehouses(MaxRows)
    /\ run = Idle
    /\ last = NoAttempt

NextLoader ==
    \/ \E d \in Frames(MaxRows) : StartRun(d)
    \/ LoadAttempt("none", "none")

SpecLoader ==
    InitLoader /\ [][NextLoader /\ UNCHANGED <<cacheVars, otherVars>>]_vars

(***************************************************************************)
(* Specification of the loader with faults: any statement of an attempt    *)
(* can fail, on tables and frames of at most one row                       *)
(***************************************************************************)
InitRetry ==
    /\ InitCache
    /\ Quiet
    /\ wh \in Warehouses(1)
    /\ run = Idle
    /\ last = NoAttempt

NextRetry ==
    \/ \E d \in Frames(1) : StartRun(d)
    \/ LoadAttempt("none", "none")
    \/ LoadAttempt("fetch", "source")
    \/ \E fp \in FailPoints \ {"fetch"}, exc \in ExcClasses \ {"source"} :
          LoadAttempt(fp, exc)

SpecRetry ==
    InitRetry /\ [][NextRetry /\ UNCHANGED <<cacheVars, otherVars>>]_vars

(***************************************************************************)
(* Claims about the incremental loader.  last holds the latest attempt of  *)
(* _load, last.pre the warehouse it started on, wh the warehouse after it. *)
(***************************************************************************)
Attempted == last.outcome # "none"

\* C5: create path.  When the target table does not exist and N > 0 rows
\* are fetched, the load succeeds, the table then exists and holds exactly
\* the N fetched rows, records_loaded = N and records_updated = 0.
C5_CreatePath ==
    (Attempted /\ ~last.pre.tgt.exists /\ ~Empty(last.df)) =>
        /\ last.outcome = "success"
        /\ wh.tgt.exists
        /\ wh.tgt.rows = last.df.rows
        /\ last.loaded = Count(last.df.rows)
        /\ last.updated = 0

C5_Witness ==
    /\ last.outcome = "success"
    /\ last.branch = "create"
    /\ ~last.pre.tgt.exists
    /\ Count(wh.tgt.rows) > 1

\* the upsert path's case: the table exists with a primary key whose columns
\* the fetched rows have
C6_Case ==
    /\ Attempted
    /\ last.pre.tgt.exists
    /\ UsablePk(last.pre.tgt, last.df)
    /\ ~Empty(last.df)

\* M + (K - J) rows, shared-key rows carry the fetched values, the other
\* rows are unchanged, records_updated = K - J
C6_Post ==
    LET pre == last.pre.tgt.rows
        d == last.df
        post == wh.tgt.rows
        M == Count(pre)
        K == Count(d.rows)
        J == Count(FilterBag(d.rows, {r \in DOMAIN d.rows : r.id \in IdsOf(pre)}))
    IN  /\ last.outcome = "success"
        /\ Count(post) = M + (K - J)
        /\ \A r \in DOMAIN d.rows : r.id \in IdsOf(pre) =>
              \E q \in DOMAIN post :
                  /\ q.id = r.id
                  /\ q.val = r.val
                  /\ d.hasKey => q.season = r.season
        /\ \A r \in DOMAIN pre : r.id \notin IdsOf(d.rows) =>
              r \in DOMAIN post /\ post[r] = pre[r]
        /\ last.updated = K - J

\* C6 as stated: upsert path.  When the table exists with a primary key
\* whose columns the fetched rows have, holds M rows, and K rows are fetched
\* of which J share a key with existing rows, the table ends with
\* M + (K - J) rows, shared-key rows carry the fetched non-key values, other
\* rows are unchanged and records_updated = K - J.
C6_AsStated == C6_Case => C6_Post

\* C6, amended: the same, for fetched rows whose primary-key values are
\* pairwise distinct.
C6_UpsertPath == (C6_Case /\ UniqueIds(last.df.rows)) => C6_Post

C6_Witness ==
    /\ C6_Case
    /\ UniqueIds(last.df.rows)
    /\ last.outcome = "success"
    /\ \E r \in DOMAIN last.df.rows : r.id \in IdsOf(last.pre.tgt.rows)
    /\ \E r \in DOMAIN last.df.rows : r.id \notin IdsOf(last.pre.tgt.rows)
    /\ \E r \in DOMAIN last.pre.tgt.rows : r.id \notin IdsOf(last.df.rows)

\* C7: delete-then-append path.  When the table exists and has no usable
\* primary key (none, or a key column the fetched rows lack), the load
\* succeeds, the table then holds exactly the pre-existing rows whose
\* incremental-key value does not occur in the fetched rows, unchanged,
\* plus all fetched rows, and records_updated = records_loaded.
C7_DeleteThenAppend ==
    (/\ Attempted
     /\ last.pre.tgt.exists
     /\ ~UsablePk(last.pre.tgt, last.df)
     /\ ~Empty(last.df)) =>
        /\ last.outcome = "success"
        /\ wh.tgt.rows =
              FilterBag(last.pre.tgt.rows,
                        {r \in DOMAIN last.pre.tgt.rows :
                            r.season \notin
                                {x.season : x \in DOMAIN last.df.rows}})
              (+) last.df.rows
        /\ last.updated = last.loaded
        /\ last.loaded = Count(last.df.rows)

\* C8: skip path.  When the source returns zero rows the load returns
\* "skipped" with zero rows loaded, and the warehouse is as it was: no
\* schema created, no temporary table, the target table unchanged.
C8_SkipPath ==
    (Attempted /\ Empty(last.df)) =>
        /\ last.outcome = "skipped"
        /\ last.loaded = 0
        /\ wh = last.pre

C8_Witness ==
    /\ last.outcome = "skipped"
    /\ Empty(last.df)
    /\ ~wh.schema
    /\ run.status = "done"

\* C9: retry bound on the source.  A source that fails on the first two
\* attempts is invoked a third time; when every attempt fails in the source,
\* the load raises after exactly max_retries invocations of the source.
\* While only the source has failed and fewer than max_retries invocations
\* were made, the load goes on to invoke the source again.
C9_SourceRetried ==
    /\ (run.calls > 0 /\ run.srcFails = run.calls /\ run.calls < max_retries) =>
          run.status = "running"
    /\ (run.status = "raised" /\ run.calls > 0 /\ run.srcFails = run.calls) =>
          run.calls = max_retries

(***************************************************************************)
(* Concurrent requests.  get_data, cache_status and cache_clear are plain  *)
(* functions, which the server runs on the threads of a pool; the          *)
(* interpreter can switch threads between any two statements, and no lock  *)
(* guards _DATASET_CACHE.  A thread's frame is its position in             *)
(* _get_cached_df / _set_cached_df, its locals and how its last request    *)
(* ended.  A frame that a thread stores has the thread's number for        *)
(* contents.  The load between a miss and the set always succeeds here,    *)
(* and min() at line 153 is taken as one step.                             *)
(***************************************************************************)
Threads == 1..NumThreads

ThreadIdle ==
    [pc |-> "idle", key |-> None, timestamp |-> 0, oldest_key |-> None,
     raised |-> "none", fn |-> "none", calls |-> 0]

\* the thread's request ends: its locals are gone
Return(f) ==
    [f EXCEPT !.pc = "idle", !.key = None, !.timestamp = 0, !.oldest_key = None]

\* the exception leaves function fn and ends the request
Raise(f, exc, fn) == [Return(f) EXCEPT !.raised = exc, !.fn = fn]

\* a subscript or del on the dict c with key k raises KeyError
KeyError(c, k) == k \notin Keys(c)

\* the dict changes to c1: objects no longer referenced are freed
Store(c1, h1, g1) ==
    /\ _DATASET_CACHE' = c1
    /\ heap' = Collect(h1, c1, None)
    /\ ghost' = g1

\* get_data(player_stats), line 1018: the thread enters _get_cached_df(k)
BeginData(t, k) ==
    /\ th[t].pc = "idle"
    /\ th[t].calls < MaxCalls
    /\ th' = [th EXCEPT ![t] = [ThreadIdle EXCEPT !.pc = "get_in", !.key = k,
                                                  !.calls = th[t].calls + 1]]
    /\ UNCHANGED <<_DATASET_CACHE, heap, ghost>>

\* line 138: if cache_key in _DATASET_CACHE; line 147 and on to the set
\* after the load when it is not
GetIn(t) ==
    /\ th[t].pc = "get_in"
    /\ th' = [th EXCEPT ![t].pc = IF th[t].key \in Keys(_DATASET_CACHE)
                                  THEN "get_read" ELSE "set_len"]
    /\ UNCHANGED <<_DATASET_CACHE, heap, ghost>>

\* line 139: df, timestamp = _DATASET_CACHE[cache_key]
GetRead(t) ==
    /\ th[t].pc = "get_read"
    /\ th' = [th EXCEPT ![t] =
                IF KeyError(_DATASET_CACHE, th[t].key)
                THEN Raise(th[t], "KeyError", "_get_cached_df")
                ELSE [th[t] EXCEPT
                        !.pc = "get_ttl",
                        !.timestamp =
                            _DATASET_CACHE[IndexOf(_DATASET_CACHE,
                                                   th[t].key)].timestamp]]
    /\ UNCHANGED <<_DATASET_CACHE, heap, ghost>>

\* line 140: the freshness test; lines 141-142 return the copy
GetTtl(t) ==
    /\ th[t].pc = "get_ttl"
    /\ th' = [th EXCEPT ![t] = IF IsFresh(now, th[t].timestamp)
                               THEN Return(th[t])
                               ELSE [th[t] EXCEPT !.pc = "get_del"]]
    /\ UNCHANGED <<_DATASET_CACHE, heap, ghost>>

\* line 145: del _DATASET_CACHE[cache_key]; line 147 and on to the set
GetDel(t) ==
    /\ th[t].pc = "get_del"
    /\ IF KeyError(_DATASET_CACHE, th[t].key)
       THEN /\ th' = [th EXCEPT ![t] =
                        Raise(th[t], "KeyError", "_get_cached_df")]
            /\ UNCHANGED <<_DATASET_CACHE, heap, ghost>>
       ELSE /\ th' = [th EXCEPT ![t].pc = "set_len"]
            /\ Store(DictDel(_DATASET_CACHE,
                             IndexOf(_DATASET_CACHE, th[t].key)),
                     heap, [ghost EXCEPT ![th[t].key] = NeverSet])

\* line 152: if len(_DATASET_CACHE) >= _CACHE_MAX_SIZE
SetLen(t) ==
    /\ th[t].pc = "set_len"
    /\ th' = [th EXCEPT ![t].pc = IF Len(_DATASET_CACHE) >= _CACHE_MAX_SIZE
                                  THEN "set_min" ELSE "set_put"]
    /\ UNCHANGED <<_DATASET_CACHE, heap, ghost>>

\* line 153: oldest_key = min(...); min of an empty dict raises ValueError
SetMin(t) ==
    /\ th[t].pc = "set_min"
    /\ th' = [th EXCEPT ![t] =
                IF _DATASET_CACHE = << >>
                THEN Raise(th[t], "ValueError", "_set_cached_df")
                ELSE [th[t] EXCEPT
                        !.pc = "set_del",
                        !.oldest_key =
                            _DATASET_CACHE[OldestIdx(_DATASET_CACHE)].key]]
    /\ UNCHANGED <<_DATASET_CACHE, heap, ghost>>

\* line 154: del _DATASET_CACHE[oldest_key]
SetDel(t) ==
    /\ th[t].pc = "set_del"
    /\ IF KeyError(_DATASET_CACHE, th[t].oldest_key)
       THEN /\ th' = [th EXCEPT ![t] =
                        Raise(th[t], "KeyError", "_set_cached_df")]
            /\ UNCHANGED <<_DATASET_CACHE, heap, ghost>>
       ELSE /\ th' = [th EXCEPT ![t].pc = "set_put"]
            /\ Store(DictDel(_DATASET_CACHE,
                             IndexOf(_DATASET_CACHE, th[t].oldest_key)),
                     heap, [ghost EXCEPT ![th[t].oldest_key] = NeverSet])

\* line 157: _DATASET_CACHE[cache_key] = (df.copy(), time.time())
SetPut(t) ==
    /\ th[t].pc = "set_put"
    /\ LET k == th[t].key
           cp == CopyId(SelectSeq(_DATASET_CACHE, LAMBDA e : e.key # k),
                        None, None, k)
       IN  Store(DictPut(_DATASET_CACHE,
                         [key |-> k, df |-> cp, timestamp |-> now]),
                 [x \in DOMAIN heap \cup {cp} |->
                     IF x = cp THEN t ELSE heap[x]],
                 [ghost EXCEPT ![k] = [val |-> t, at |-> now]])
    /\ th' = [th EXCEPT ![t] = Return(th[t])]

\* POST /cache/clear on thread t, line 163: _DATASET_CACHE = {}
ThreadClear(t) ==
    /\ th[t].pc = "idle"
    /\ th[t].calls < MaxCalls
    /\ th' = [th EXCEPT ![t] = [ThreadIdle EXCEPT !.calls = th[t].calls + 1]]
    /\ Store(ClearedCache, heap, NoGhost)

\* time passes between two steps
ThreadTick ==
    /\ TicksOf(now) < MaxTicks
    /\ now' = now + TickStep(now)
    /\ UNCHANGED <<th, _DATASET_CACHE, heap, ghost>>

(***************************************************************************)
(* Specification of concurrent requests on a cache near its capacity       *)
(***************************************************************************)
InitThreads ==
    /\ NearCapacity
    /\ LoaderIdle
    /\ th = [t \in Threads |-> ThreadIdle]
    /\ dag = << >>
    /\ cb = << >>
    /\ req = << >>
    /\ sched = << >>

NextThreads ==
    \/ \E t \in Threads, k \in CapKeys : BeginData(t, k) /\ UNCHANGED now
    \/ \E t \in Threads : GetIn(t) /\ UNCHANGED now
    \/ \E t \in Threads : GetRead(t) /\ UNCHANGED now
    \/ \E t \in Threads : GetTtl(t) /\ UNCHANGED now
    \/ \E t \in Threads : GetDel(t) /\ UNCHANGED now
    \/ \E t \in Threads : SetLen(t) /\ UNCHANGED now
    \/ \E t \in Threads : SetMin(t) /\ UNCHANGED now
    \/ \E t \in Threads : SetDel(t) /\ UNCHANGED now
    \/ \E t \in Threads : SetPut(t) /\ UNCHANGED now
    \/ \E t \in Threads : ThreadClear(t) /\ UNCHANGED now
    \/ ThreadTick

SpecThreads ==
    InitThreads /\
    [][NextThreads /\ UNCHANGED <<df, ret, scenario, nsets, loaderVars, dag, cb, req, sched>>]_vars

\* C11: a cache read never raises.  Under every interleaving of requests
\* that get, set and clear, _get_cached_df returns a value or None.
C11_ReadNeverRaises ==
    \A t \in Threads : th[t].fn # "_get_cached_df"

\* C12: under every interleaving no _set_cached_df raises, the cache never
\* holds more than _CACHE_MAX_SIZE entries, and the entry of a key is the
\* one written last.
C12_ConcurrentSets ==
    /\ \A t \in Threads : th[t].fn # "_set_cached_df"
    /\ Len(_DATASET_CACHE) <= _CACHE_MAX_SIZE
    /\ \A i \in DOMAIN _DATASET_CACHE :
          heap[_DATASET_CACHE[i].df] = ghost[_DATASET_CACHE[i].key].val

(***************************************************************************)
(* Specification of the create-and-load and upsert branches with faults:   *)
(* the table is absent or has the primary key "id", the frames of up to    *)
(* MaxRows rows have the column "id", and any statement of _load can fail  *)
(* with an exception that the wrapper does not retry                       *)
(***************************************************************************)
InitFaults ==
    /\ InitCache
    /\ Quiet
    /\ wh \in {w \in Warehouses(MaxRows) : w.tgt.exists => w.tgt.pk = "id"}
    /\ run = Idle
    /\ last = NoAttempt

NextFaults ==
    \/ \E k \in BOOLEAN : \E d \in FramesWith(TRUE, k, MaxRows) : StartRun(d)
    \/ LoadAttempt("none", "none")
    \/ LoadAttempt("fetch", "source")
    \/ \E fp \in FailPoints \ {"fetch"} : LoadAttempt(fp, "other")

SpecFaults ==
    InitFaults /\ [][NextFaults /\ UNCHANGED <<cacheVars, otherVars>>]_vars

(***************************************************************************)
(* Claims about loads that fail.  Rows that were in the table before the   *)
(* run carry payload 1, fetched rows payload 2.                            *)
(***************************************************************************)
\* the table holds rows of incremental-key value s both from before the run
\* and from the fetched frame
Both(s) ==
    /\ \E r \in DOMAIN wh.tgt.rows : r.season = s /\ r.val = 1
    /\ \E r \in DOMAIN wh.tgt.rows : r.season = s /\ r.val = 2

\* C13: when a run stops in the delete-then-append branch, the table never
\* holds both the pre-existing and the fetched rows of one incremental-key
\* value: at worst the rows of those values are absent.
C13_GapNotDuplicate ==
    (last.branch = "append" /\ last.outcome = "raised") =>
        \A s \in Seasons : ~Both(s)

\* the fetched row r is in the table: a row of its key carries its values
Applied(r) ==
    \E q \in DOMAIN wh.tgt.rows :
        /\ q.id = r.id
        /\ q.val = r.val
        /\ last.df.hasKey => q.season = r.season

C17_DataErrorNotSuccess ==
    (/\ Attempted
     /\ \/ Empty(last.df)
        \/ last.branch = "append" /\ ~last.df.hasKey) =>
        /\ last.outcome # "success"
        /\ last.attempt = 0
        /\ wh.tgt.rows = last.pre.tgt.rows

(***************************************************************************)
(* The DAGs nfl_datamans_dbt and nfl_datamans_dbt_improved: one DAG run,   *)
(* its task instances scheduled by Airflow.  No task sets a trigger rule,  *)
(* so each runs under the default one, all_success.                        *)
(***************************************************************************)
DagIds == {"nfl_datamans_dbt", "nfl_datamans_dbt_improved"}

\* with TaskGroup("load_raw_data") as load_group
load_group ==
    {"load_raw_data.load_player_stats", "load_raw_data.load_schedules"}

\* with TaskGroup("data_quality") as quality_group
quality_group ==
    {"data_quality.quality_check_player_stats",
     "data_quality.quality_check_schedules"}

\* the load tasks of a DAG
LoadTasks(dg) ==
    IF dg = "nfl_datamans_dbt" THEN {"load_player_stats", "load_schedules"}
    ELSE load_group

Tasks(dg) ==
    IF dg = "nfl_datamans_dbt" THEN LoadTasks(dg) \cup {"dbt_run_staging"}
    ELSE load_group \cup quality_group \cup {"dbt_run_staging", "dbt_test"}

\* A >> B : every task of A is upstream of every task of B
Chain(A, B) == A \X B

\* [load_player_stats, load_schedules] >> dbt_run_staging
\* load_group >> quality_group >> dbt_run_staging >> dbt_test
Edges(dg) ==
    IF dg = "nfl_datamans_dbt"
    THEN Chain(LoadTasks(dg), {"dbt_run_staging"})
    ELSE Chain(load_group, quality_group)
         \cup Chain(quality_group, {"dbt_run_staging"})
         \cup Chain({"dbt_run_staging"}, {"dbt_test"})

\* task.upstream_task_ids
upstream_task_ids(dg, t) == {u \in Tasks(dg) : <<u, t>> \in Edges(dg)}

\* default_args["retries"]
Retries(dg) == IF dg = "nfl_datamans_dbt" THEN 1 ELSE 2

\* trigger rule all_done: the upstream tasks have finished, however
ReadyAllDone(d, t) ==
    \A u \in upstream_task_ids(d.id, t) :
        d.state[u] \in {"success", "failed", "upstream_failed"}

\* trigger rule all_success: every upstream task has succeeded
Ready(d, t) ==
    \A u \in upstream_task_ids(d.id, t) : d.state[u] = "success"

\* the scheduler starts a task instance, for the first time or again
StartTask(t) ==
    /\ dag.state[t] \in {"none", "up_for_retry"}
    /\ Ready(dag, t)
    /\ dag' = [dag EXCEPT !.state[t] = "running"]

\* the task's callable or command returns
Succeed(t) ==
    /\ dag.state[t] = "running"
    /\ dag' = [dag EXCEPT !.state[t] = "success"]

\* the task raises: it is tried again while it has retries left
FailTask(t) ==
    /\ dag.state[t] = "running"
    /\ dag' = IF dag.tries[t] < Retries(dag.id)
              THEN [dag EXCEPT !.state[t] = "up_for_retry",
                               !.tries[t] = @ + 1]
              ELSE [dag EXCEPT !.state[t] = "failed"]

\* a task with a failed upstream task will not run
UpstreamFailed(t) ==
    /\ dag.state[t] = "none"
    /\ \E u \in upstream_task_ids(dag.id, t) :
          dag.state[u] \in {"failed", "upstream_failed"}
    /\ dag' = [dag EXCEPT !.state[t] = "upstream_failed"]

InitDag ==
    /\ InitCache
    /\ LoaderIdle
    /\ th = << >>
    /\ cb = << >>
    /\ req = << >>
    /\ sched = << >>
    /\ \E dg \in DagIds :
          dag = [id |-> dg,
                 state |-> [t \in Tasks(dg) |-> "none"],
                 tries |-> [t \in Tasks(dg) |-> 0]]

NextDag ==
    \/ \E t \in DOMAIN dag.state : StartTask(t)
    \/ \E t \in DOMAIN dag.state : Succeed(t)
    \/ \E t \in DOMAIN dag.state : FailTask(t)
    \/ \E t \in DOMAIN dag.state : UpstreamFailed(t)

SpecDag ==
    InitDag /\ [][NextDag /\ UNCHANGED <<cacheVars, loaderVars, th, cb, req, sched>>]_vars

\* the task instance has been started in this run
Started(t) ==
    t \in DOMAIN dag.state /\
    dag.state[t] \in {"running", "up_for_retry", "success", "failed"}

Succeeded(t) == t \in DOMAIN dag.state /\ dag.state[t] = "success"

\* C18: downstream gating.  In nfl_datamans_dbt the upstream tasks of
\* dbt_run_staging are exactly the two load tasks; in both DAGs
\* dbt_run_staging does not start before every load task of the run has
\* succeeded, in nfl_datamans_dbt_improved also not before both quality
\* checks have succeeded, and dbt_test not before dbt_run_staging has.
C18_DownstreamGating ==
    /\ upstream_task_ids("nfl_datamans_dbt", "dbt_run_staging") =
          {"load_player_stats", "load_schedules"}
    /\ Started("dbt_run_staging") =>
          /\ \A t \in LoadTasks(dag.id) : Succeeded(t)
          /\ dag.id = "nfl_datamans_dbt_improved" =>
                \A t \in quality_group : Succeeded(t)
    /\ Started("dbt_test") => Succeeded("dbt_run_staging")

\* dbt_test runs in the improved DAG after a load task was retried
C18_Witness ==
    /\ dag.id = "nfl_datamans_dbt_improved"
    /\ Started("dbt_test")
    /\ \E t \in load_group : dag.tries[t] > 0

(***************************************************************************)
(* CircuitBreaker (utils/circuit_breaker.py), used by one caller at a      *)
(* time.  cb holds the object's attributes, the clock time() in whole      *)
(* seconds, and history: streak, the number of calls that raised           *)
(* expected_exception since the last call that returned (or the reset or   *)
(* construction), and last, what the last step did.                        *)
(***************************************************************************)
NoCall ==
    [op |-> "init", rejected |-> FALSE, invoked |-> FALSE, outcome |-> "none",
     entered |-> "closed", entered_success_count |-> 0]

\* CircuitBreaker(failure_threshold, recovery_timeout)
NewBreaker(failure_threshold, recovery_timeout) ==
    [failure_threshold |-> failure_threshold,
     recovery_timeout |-> recovery_timeout,
     failure_count |-> 0,
     last_failure_time |-> None,
     state |-> "closed",
     success_count |-> 0,
     time |-> 1,
     streak |-> 0,
     last |-> NoCall]

\* the recovery test with >= in place of >
ElapsedGe(b) ==
    b.last_failure_time # None /\
    (b.time - b.last_failure_time) >= b.recovery_timeout

\* self.last_failure_time and (time() - self.last_failure_time) >
\* self.recovery_timeout
Elapsed(b) ==
    b.last_failure_time # None /\
    (b.time - b.last_failure_time) > b.recovery_timeout

\* lines 75-84: the call is refused
Rejects(b) == b.state = "open" /\ ~Elapsed(b)

\* lines 75-79: the breaker as the function is about to be executed
Enter(b) ==
    IF b.state = "open" /\ Elapsed(b)
    THEN [b EXCEPT !.state = "half_open", !.success_count = 0]
    ELSE b

\* lines 90-100: the function returned
OnSuccess(b) ==
    IF b.state = "half_open"
    THEN IF b.success_count + 1 >= 2
         THEN [b EXCEPT !.success_count = @ + 1, !.state = "closed",
                        !.failure_count = 0]
         ELSE [b EXCEPT !.success_count = @ + 1]
    ELSE IF b.state = "closed" THEN [b EXCEPT !.failure_count = 0]
    ELSE b

\* the threshold test with > in place of >=
TrippedGt(b) == b.failure_count > b.failure_threshold

\* self.failure_count >= self.failure_threshold
Tripped(b) == b.failure_count >= b.failure_threshold

\* lines 104-122: the function raised expected_exception
OnFailure(b) ==
    LET b1 == [b EXCEPT !.failure_count = @ + 1, !.last_failure_time = b.time]
    IN  IF b1.state = "half_open" THEN [b1 EXCEPT !.state = "open"]
        ELSE IF Tripped(b1) THEN [b1 EXCEPT !.state = "open"]
        ELSE b1

\* breaker.call(func) while the circuit is open: the exception of line 81
CallRejected ==
    /\ Rejects(cb)
    /\ cb' = [cb EXCEPT !.last = [op |-> "call", rejected |-> TRUE,
                                  invoked |-> FALSE, outcome |-> "none",
                                  entered |-> cb.state,
                                  entered_success_count |-> cb.success_count]]

\* breaker.call(func): func is executed and returns ("success"), raises
\* expected_exception ("expected") or raises something else ("unexpected")
CallInvoked(outcome) ==
    /\ ~Rejects(cb)
    /\ LET b1 == Enter(cb)
           b2 == IF outcome = "success" THEN OnSuccess(b1)
                 ELSE IF outcome = "expected" THEN OnFailure(b1)
                 ELSE b1
       IN  cb' = [b2 EXCEPT
                    !.streak = IF outcome = "success" THEN 0
                               ELSE IF outcome = "expected" THEN @ + 1
                               ELSE @,
                    !.last = [op |-> "call", rejected |-> FALSE,
                              invoked |-> TRUE, outcome |-> outcome,
                              entered |-> b1.state,
                              entered_success_count |-> b1.success_count]]

\* breaker.reset()
Reset ==
    cb' = [cb EXCEPT !.state = "closed", !.failure_count = 0,
                     !.last_failure_time = None, !.success_count = 0,
                     !.streak = 0, !.last = [NoCall EXCEPT !.op = "reset"]]

\* a second passes
BreakerTick ==
    /\ cb.time < MaxTime
    /\ cb' = [cb EXCEPT !.time = @ + 1, !.last = [NoCall EXCEPT !.op = "tick"]]

InitBreaker ==
    /\ InitCache
    /\ LoaderIdle
    /\ th = << >>
    /\ dag = << >>
    /\ req = << >>
    /\ sched = << >>
    /\ cb \in {NewBreaker(n, s) : n \in 1..MaxThreshold, s \in 1..MaxTimeout}

NextBreaker ==
    \/ CallRejected
    \/ CallInvoked("success")
    \/ CallInvoked("expected")
    \/ CallInvoked("unexpected")
    \/ Reset
    \/ BreakerTick

SpecBreaker ==
    InitBreaker /\
    [][NextBreaker /\ UNCHANGED <<cacheVars, loaderVars, th, dag, req, sched>>]_vars

\* C19: from CLOSED the breaker becomes OPEN exactly when failure_threshold
\* calls have raised expected_exception with no successful call between;
\* a successful call in CLOSED resets failure_count to 0; in every CLOSED
\* state failure_count < failure_threshold.
C19_OpensOnRepeatedFailure ==
    /\ [](cb.state = "closed" => cb.failure_count < cb.failure_threshold)
    /\ [][cb.state = "closed" =>
            ((cb'.state = "open") <=>
                (/\ cb'.last.op = "call"
                 /\ cb'.last.outcome = "expected"
                 /\ cb'.streak = cb.failure_threshold))]_vars
    /\ [][(cb.state = "closed" /\ cb'.last.op = "call"
              /\ cb'.last.outcome = "success") =>
            (cb'.failure_count = 0 /\ cb'.state = "closed")]_vars

\* a breaker of threshold above 1 has opened on its threshold-th failure
C19_Witness ==
    /\ cb.state = "open"
    /\ cb.failure_threshold > 1
    /\ cb.failure_count = cb.failure_threshold
    /\ cb.time > 1

\* C20: while OPEN with no more than recovery_timeout seconds since the last
\* failure, every call is rejected, the function is not invoked and state,
\* failure_count and last_failure_time stay as they are; the first call
\* after recovery_timeout has elapsed moves the breaker to HALF_OPEN with
\* success_count 0 and invokes the function.
C20_OpenRejectsUntilTimeout ==
    /\ [][(/\ cb.state = "open"
           /\ cb'.last.op = "call"
           /\ cb.time - cb.last_failure_time <= cb.recovery_timeout) =>
            (/\ cb'.last.rejected
             /\ ~cb'.last.invoked
             /\ cb'.state = "open"
             /\ cb'.failure_count = cb.failure_count
             /\ cb'.last_failure_time = cb.last_failure_time)]_vars
    /\ [][(/\ cb.state = "open"
           /\ cb'.last.op = "call"
           /\ cb.time - cb.last_failure_time > cb.recovery_timeout) =>
            (/\ cb'.last.invoked
             /\ cb'.last.entered = "half_open"
             /\ cb'.last.entered_success_count = 0)]_vars

\* a call was let through an open breaker and the function returned
C20_Witness ==
    /\ cb.last.op = "call"
    /\ cb.last.entered = "half_open"
    /\ cb.last.invoked
    /\ cb.state = "half_open"
    /\ cb.success_count = 1
    /\ cb.time - cb.last_failure_time > cb.recovery_timeout

\* C21: in HALF_OPEN the breaker tests recovery with one request: when the
\* test call succeeds the circuit closes (CLOSED, failure_count 0); when it
\* fails the circuit reopens (OPEN, last_failure_time updated).
C21_HalfOpenOneTest ==
    [][(/\ cb'.last.op = "call"
        /\ cb'.last.invoked
        /\ cb'.last.entered = "half_open") =>
         (/\ cb'.last.outcome = "success" =>
                (cb'.state = "closed" /\ cb'.failure_count = 0)
          /\ cb'.last.outcome = "expected" =>
                (cb'.state = "open" /\ cb'.last_failure_time = cb.time))]_vars

\* C22: an entry leaves the cache only through clear_cache, through a
\* _get_cached_df that finds it expired, or through a _set_cached_df that
\* would otherwise make the number of entries exceed 20; a _set_cached_df of
\* a key already present overwrites that key's entry and removes no other
\* key's entry.
C22_EntryLeavesOnlyBy ==
    /\ [][\A k \in Keys(_DATASET_CACHE) \ Keys(_DATASET_CACHE') :
            \/ ret'.op = "clear"
            \/ ret'.op = "get" /\ ret'.key = k /\ ret'.status = "expired"
            \/ /\ ret'.op = "set"
               /\ Cardinality(Keys(_DATASET_CACHE) \cup {ret'.key})
                      > _CACHE_MAX_SIZE]_vars
    /\ [][(ret'.op = "set" /\ ret'.key \in Keys(_DATASET_CACHE)) =>
            Keys(_DATASET_CACHE') = Keys(_DATASET_CACHE)]_vars

\* C23: the loader's retry is not applied to data errors nor to any other
\* error that is not a database connectivity/operational error: an attempt
\* that fails with one is the last attempt, the error reaches the caller at
\* once with no backoff sleep after it, and when it is the first attempt the
\* load body has run exactly once.
C23_DataErrorNotRetried ==
    (last.outcome = "raised" /\ last.exc # "psycopg2") =>
        /\ run.status = "raised"
        /\ run.calls = last.attempt + 1
        /\ Len(run.sleeps) = last.attempt
        /\ (last.attempt = 0 => (run.calls = 1 /\ run.sleeps = << >>))

\* the first attempt failed on the data (a frame without the primary key
\* column appended to a table that has one), no statement being interrupted
C23_Witness ==
    /\ last.outcome = "raised"
    /\ last.fault = "none"
    /\ last.exc = "other"
    /\ last.branch = "append"
    /\ run.status = "raised"
    /\ run.calls = 1
    /\ run.sleeps = << >>

\* C24: retry_with_backoff makes a bounded number of attempts.  When every
\* attempt raises a retryable exception the function is invoked exactly
\* max_retries times, with max_retries - 1 sleeps, one between consecutive
\* attempts and none after the final failure, the i-th lasting
\* initial_delay * backoff_factor^(i-1), and the load then raises; when an
\* attempt returns, the call ends with no further attempt or sleep.
C24_BoundedAttempts ==
    /\ [](/\ run.calls <= max_retries
          /\ \A i \in DOMAIN run.sleeps :
                run.sleeps[i] = initial_delay * backoff_factor ^ (i - 1)
          /\ (run.status = "running" => Len(run.sleeps) = run.calls)
          /\ (run.status \in {"done", "raised"} =>
                Len(run.sleeps) = run.calls - 1)
          /\ (run.status = "raised" /\ last.exc = "psycopg2") =>
                (/\ run.calls = max_retries
                 /\ Len(run.sleeps) = max_retries - 1
                 /\ last.attempt = max_retries - 1
                 /\ last.outcome = "raised"))
    /\ [][run.status \in {"done", "raised"} => run' = run]_vars

\* three attempts raised a psycopg2 error: two sleeps, of 1 and 2 seconds
C24_Witness ==
    /\ run.status = "raised"
    /\ last.exc = "psycopg2"
    /\ run.calls = 3
    /\ run.sleeps = <<1, 2>>

(***************************************************************************)
(* Cache keys of get_data.  A request names its seasons by the repeated    *)
(* parameter seasons (a list of integers) and by seasons_csv, given here   *)
(* as the tokens between its commas; an absent parameter is the empty      *)
(* list.  req holds the requests made, each with the key built for it.     *)
(***************************************************************************)
Years == {2021, 2022}

Tokens == {"2021", " 2022", "x"}

\* tok.strip()
Strip(tok) == IF tok = " 2022" THEN "2022" ELSE tok

\* int(tok): None stands for ValueError
ParseInt(tok) ==
    IF tok = "2021" THEN 2021 ELSE IF tok = "2022" THEN 2022 ELSE None

\* the loop over seasons_csv.split(","): invalid tokens are ignored
RECURSIVE CsvInts(_)
CsvInts(toks) ==
    IF toks = << >> THEN << >>
    ELSE LET y == ParseInt(Strip(Head(toks)))
         IN  (IF y = None THEN << >> ELSE <<y>>) \o CsvInts(Tail(toks))

\* deduplicate while preserving order
RECURSIVE Unique(_)
Unique(out) ==
    IF out = << >> THEN << >>
    ELSE LET u == Unique(SubSeq(out, 1, Len(out) - 1))
             y == out[Len(out)]
         IN  IF \E i \in DOMAIN u : u[i] = y THEN u ELSE Append(u, y)

_parse_seasons(seasons, seasons_csv) == Unique(seasons \o CsvInts(seasons_csv))

\* the seasons in the order given
Unsorted(seasons) == seasons

\* sorted(seasons)
Sorted(seasons) == SortSeq(seasons, LAMBDA a, b : a < b)

_get_cache_key(dataset, seasons, include_ngs, ngs_stat_type) ==
    <<dataset, Sorted(seasons), include_ngs, ngs_stat_type>>

SeqsUpTo(S, n) == UNION {[1..m -> S] : m \in 0..n}

\* the requests: at most MaxList season values in seasons and seasons_csv
Requests ==
    {r \in [dataset : {"player_stats", "schedules"},
            seasons : SeqsUpTo(Years, MaxList),
            seasons_csv : SeqsUpTo(Tokens, MaxList),
            include_ngs : BOOLEAN,
            ngs_stat_type : {"receiving", "rushing"}] :
        /\ Len(r.seasons) + Len(r.seasons_csv) <= MaxList
        /\ r.dataset = "schedules" =>
              (r.seasons = << >> /\ r.seasons_csv = << >> /\ ~r.include_ngs
                  /\ r.ngs_stat_type = "receiving")}

\* get_data up to the cache lookup: years and, for player_stats, cache_key
BuildKey(r) ==
    LET years == _parse_seasons(r.seasons, r.seasons_csv)
    IN  req' = Append(req,
            [request |-> r, years |-> years,
             cache_key |->
                IF r.dataset = "player_stats"
                THEN _get_cache_key(r.dataset, years, r.include_ngs,
                                    r.ngs_stat_type)
                ELSE << >>])

InitKeys ==
    /\ InitCache
    /\ LoaderIdle
    /\ th = << >>
    /\ dag = << >>
    /\ cb = << >>
    /\ sched = << >>
    /\ req = << >>

\* two requests are made
NextKeys == Len(req) < 2 /\ \E r \in Requests : BuildKey(r)

SpecKeys ==
    InitKeys /\
    [][NextKeys /\ UNCHANGED <<cacheVars, loaderVars, th, dag, cb, sched>>]_vars

\* the set of seasons a request names
SeasonSet(r) ==
    {r.seasons[i] : i \in DOMAIN r.seasons} \cup
    ({ParseInt(Strip(r.seasons_csv[i])) : i \in DOMAIN r.seasons_csv}
        \ {None})

Keyed(q) == q.request.dataset = "player_stats"

\* C25: cache keys are canonical.  The season component of every key built
\* is sorted ascending without duplicates; two requests naming the same set
\* of seasons, in any order, with any repetition, through seasons or
\* seasons_csv, with equal dataset, include_ngs and ngs_stat_type get the
\* same key, and requests differing in one of the four get different keys.
C25_CanonicalKeys ==
    /\ \A i \in DOMAIN req : Keyed(req[i]) =>
          LET ss == req[i].cache_key[2]
          IN  /\ \A m, n \in DOMAIN ss : m < n => ss[m] < ss[n]
              /\ {ss[m] : m \in DOMAIN ss} = SeasonSet(req[i].request)
    /\ \A i, j \in DOMAIN req : (Keyed(req[i]) /\ Keyed(req[j])) =>
          ((req[i].cache_key = req[j].cache_key) <=>
              (/\ SeasonSet(req[i].request) = SeasonSet(req[j].request)
               /\ req[i].request.dataset = req[j].request.dataset
               /\ req[i].request.include_ngs = req[j].request.include_ngs
               /\ req[i].request.ngs_stat_type =
                      req[j].request.ngs_stat_type))

\* one request names 2022, 2021 by seasons, the other 2021, 2022 by
\* seasons_csv: both get the key of (2021, 2022)
C25_Witness ==
    /\ Len(req) = 2
    /\ req[1].request.seasons = <<2022, 2021>>
    /\ req[2].request.seasons_csv = <<"2021", " 2022">>
    /\ req[1].cache_key = req[2].cache_key
    /\ req[1].cache_key[2] = <<2021, 2022>>

(***************************************************************************)
(* The scheduler and the runs of nfl_datamans_dbt_improved.  A run is      *)
(* created (by the schedule or by a trigger), waits queued, is made        *)
(* running while fewer than max_active_runs runs are, and ends when none   *)
(* of its task instances can change any more.  A task instance has one     *)
(* state; it is an invocation of its callable while that state is          *)
(* "running".                                                              *)
(***************************************************************************)
improved == "nfl_datamans_dbt_improved"

\* DAG(..., max_active_runs=1, ...)
max_active_runs == 1

RunIds == 1..MaxRuns

NoRun ==
    [status |-> "none", id |-> improved,
     state |-> [t \in Tasks(improved) |-> "none"],
     tries |-> [t \in Tasks(improved) |-> 0]]

\* the dataset a load task passes to load_raw_table_incremental
Dataset(t) ==
    IF t = "load_raw_data.load_player_stats" THEN "player_stats"
    ELSE "schedules"

\* the tables an invocation writes: raw_nfl.<dataset> and
\* temp_table = f"{dataset}_temp"
TablesOf(t) == {Dataset(t), Dataset(t) \o "_temp"}

Active(s) == {r \in RunIds : s[r].status = "running"}

\* a scheduler that activates every queued run
CanActivateAlways(s) == TRUE

\* fewer than max_active_runs runs are active
CanActivate(s) == Cardinality(Active(s)) < max_active_runs

Terminal == {"success", "failed", "upstream_failed"}

\* the schedule or a trigger creates a run
CreateRun(r) ==
    /\ sched[r].status = "none"
    /\ sched' = [sched EXCEPT ![r].status = "queued"]

\* the scheduler makes a queued run running
ActivateRun(r) ==
    /\ sched[r].status = "queued"
    /\ CanActivate(sched)
    /\ sched' = [sched EXCEPT ![r].status = "running"]

\* a task instance of a running run starts, for the first time or again
RunStartTask(r, t) ==
    /\ sched[r].status = "running"
    /\ sched[r].state[t] \in {"none", "up_for_retry"}
    /\ Ready(sched[r], t)
    /\ sched' = [sched EXCEPT ![r].state[t] = "running"]

\* a task instance returns (ok) or raises
RunEndTask(r, t, ok) ==
    /\ sched[r].state[t] = "running"
    /\ sched' =
          IF ok THEN [sched EXCEPT ![r].state[t] = "success"]
          ELSE IF sched[r].tries[t] < Retries(improved)
          THEN [sched EXCEPT ![r].state[t] = "up_for_retry",
                             ![r].tries[t] = @ + 1]
          ELSE [sched EXCEPT ![r].state[t] = "failed"]

\* a task instance with a failed upstream task will not run
RunUpstreamFailed(r, t) ==
    /\ sched[r].status = "running"
    /\ sched[r].state[t] = "none"
    /\ \E u \in upstream_task_ids(improved, t) :
          sched[r].state[u] \in {"failed", "upstream_failed"}
    /\ sched' = [sched EXCEPT ![r].state[t] = "upstream_failed"]

\* every task instance of the run has ended: the run is over
FinishRun(r) ==
    /\ sched[r].status = "running"
    /\ \A t \in Tasks(improved) : sched[r].state[t] \in Terminal
    /\ sched' = [sched EXCEPT ![r] = [NoRun EXCEPT !.status = "done"]]

InitSched ==
    /\ InitCache
    /\ LoaderIdle
    /\ th = << >>
    /\ dag = << >>
    /\ cb = << >>
    /\ req = << >>
    /\ sched = [r \in RunIds |-> NoRun]

NextSched ==
    \/ \E r \in RunIds : CreateRun(r)
    \/ \E r \in RunIds : ActivateRun(r)
    \/ \E r \in RunIds, t \in Tasks(improved) : RunStartTask(r, t)
    \/ \E r \in RunIds, t \in Tasks(improved) : RunEndTask(r, t, TRUE)
    \/ \E r \in RunIds, t \in Tasks(improved) : RunEndTask(r, t, FALSE)
    \/ \E r \in RunIds, t \in Tasks(improved) : RunUpstreamFailed(r, t)
    \/ \E r \in RunIds : FinishRun(r)

SpecSched ==
    InitSched /\
    [][NextSched /\ UNCHANGED <<cacheVars, loaderVars, th, dag, cb, req>>]_vars

\* the invocations of load_raw_table_incremental in progress
Invocations ==
    {<<r, t>> \in RunIds \X load_group : sched[r].state[t] = "running"}

\* C26: under nfl_datamans_dbt_improved no two invocations of
\* load_raw_table_incremental for one target table overlap: at most one
\* run is active, each dataset is loaded by exactly one task of a run, and
\* the invocations in progress at one time write disjoint target and temp
\* tables.
C26_NoOverlap ==
    /\ Cardinality(Active(sched)) <= 1
    /\ \A ds \in {"player_stats", "schedules"} :
          Cardinality({t \in load_group : Dataset(t) = ds}) = 1
    /\ \A i, j \in Invocations :
          i # j => TablesOf(i[2]) \cap TablesOf(j[2]) = {}

\* the second run retries a load while the other load of that run is in
\* progress, the first run being over
C26_Witness ==
    /\ \E r \in RunIds : sched[r].status = "done"
    /\ \E r \in RunIds :
          /\ \A t \in load_group : sched[r].state[t] = "running"
          /\ \E t \in load_group : sched[r].tries[t] > 0

(***************************************************************************)
(* The basic DAG's loader load_raw_table (nfl_datamans_dbt.py), over a     *)
(* psycopg2 connection in autocommit mode: every statement is final when   *)
(* it returns.  It runs under retry_on_db_error like the incremental one.  *)
(***************************************************************************)
\* DROP TABLE IF EXISTS raw_nfl.<dataset> CASCADE
DropTable(w) == [w EXCEPT !.tgt = NoTable]

\* DROP TABLE IF EXISTS temp; CREATE TABLE temp AS ...; DROP ...; CREATE
\* TABLE temp (): a temp table without columns is left behind
RecreateTemp(w) == [w EXCEPT !.temp = TRUE]

\* COPY raw_nfl.<dataset> FROM STDIN WITH CSV HEADER needs the table: on a
\* missing one psycopg2 raises UndefinedTable, a DatabaseError
CopyExpert(w, d) ==
    IF w.tgt.exists
    THEN Outcome([w EXCEPT !.tgt.rows = @ (+) d.rows], "success", "basic",
                 Count(d.rows), 0)
    ELSE Outcome(w, "raised", "basic", 0, 0)

\* the body of load_raw_table after the fetch
BasicBody(w, d) == CopyExpert(RecreateTemp(DropTable(EnsureSchema(w))), d)

\* one iteration of the retry wrapper's loop around load_raw_table
BasicAttempt ==
    /\ run.status = "running"
    /\ LET out == BasicBody(wh, run.df)
           r1 == [run EXCEPT !.calls = @ + 1]
       IN  /\ wh' = out.wh
           /\ last' = [pre |-> wh, df |-> run.df, outcome |-> out.outcome,
                       branch |-> out.branch, loaded |-> out.loaded,
                       updated |-> out.updated,
                       exc |-> IF out.outcome = "raised" THEN "psycopg2"
                               ELSE "none",
                       attempt |-> run.attempt, fault |-> "none"]
           /\ run' = IF out.outcome = "raised" THEN AfterRaise(r1, "psycopg2")
                     ELSE [r1 EXCEPT !.status = "done"]

NextBasic ==
    \/ \E d \in Frames(MaxRows) : StartRun(d)
    \/ BasicAttempt

SpecBasic ==
    InitLoader /\ [][NextBasic /\ UNCHANGED <<cacheVars, otherVars>>]_vars

\* C27: load_raw_table drops and recreates the target table each run: a run
\* whose source returns rows ends with raw_nfl.<dataset> existing and
\* holding exactly the fetched rows.
C27_DropAndRecreate ==
    (/\ run.status \in {"done", "raised"}
     /\ last.branch = "basic"
     /\ ~Empty(last.df)) =>
        /\ run.status = "done"
        /\ wh.tgt.exists
        /\ wh.tgt.rows = last.df.rows

(***************************************************************************)
(* CircuitBreaker.call written as a decorator.  "@breaker.call" above      *)
(* "def f" evaluates breaker.call(f) when the def statement is executed    *)
(* and binds the name f to what that call returns.                         *)
(***************************************************************************)
\* @breaker.call def f(...): call(f) runs with no arguments for f.  The name
\* is bound to f's return value ("result"), or stays unbound when call
\* raises ("unbound"); it would be bound to a protected callable ("wrapper")
\* if call returned one.
Decorate(outcome) ==
    IF Rejects(cb)
    THEN cb' = [cb EXCEPT !.last = [op |-> "decorate", rejected |-> TRUE,
                                    invoked |-> FALSE, outcome |-> "none",
                                    entered |-> cb.state,
                                    entered_success_count |-> cb.success_count,
                                    bound |-> "unbound"]]
    ELSE LET b1 == Enter(cb)
             b2 == IF outcome = "success" THEN OnSuccess(b1)
                   ELSE IF outcome = "expected" THEN OnFailure(b1)
                   ELSE b1
         IN  cb' = [b2 EXCEPT
                      !.streak = IF outcome = "success" THEN 0
                                 ELSE IF outcome = "expected" THEN @ + 1
                                 ELSE @,
                      !.last = [op |-> "decorate", rejected |-> FALSE,
                                invoked |-> TRUE, outcome |-> outcome,
                                entered |-> b1.state,
                                entered_success_count |-> b1.success_count,
                                bound |-> IF outcome = "success" THEN "result"
                                          ELSE "unbound"]]

NextDecorator ==
    \/ NextBreaker
    \/ Decorate("success")
    \/ Decorate("expected")
    \/ Decorate("unexpected")

SpecDecorator ==
    InitBreaker /\
    [][NextDecorator /\ UNCHANGED <<cacheVars, loaderVars, th, dag, req, sched>>]_vars

\* C28: CircuitBreaker.call used as a decorator yields a callable that runs
\* the decorated function under the breaker each time it is called later;
\* the function is not invoked at decoration time and decoration leaves the
\* breaker's state unchanged.
C28_DecoratorWraps ==
    [][cb'.last.op = "decorate" =>
        /\ cb'.last.bound = "wrapper"
        /\ ~cb'.last.invoked
        /\ cb'.state = cb.state
        /\ cb'.failure_count = cb.failure_count
        /\ cb'.success_count = cb.success_count
        /\ cb'.last_failure_time = cb.last_failure_time]_vars

(***************************************************************************)
(* get_data for player_stats with its parameters columns, offset and       *)
(* limit.  A frame is [source, columns, rows]: the key it was loaded for,  *)
(* its columns, and whether its rows are the weekly rows of the source or  *)
(* the season totals the handler aggregates when player_id is a column.    *)
(* A response is the frame's columns with the window of its rows.          *)
(***************************************************************************)
Columns == {"player_id", "season", "yards"}

\* call_dataset(mod, dataset, seasons=years or None): deterministic per key
Source(k) == [source |-> k, columns |-> Columns, rows |-> "weekly"]

\* if columns: present = [c for c in wanted if c in df.columns];
\* if present: df = df[present].  wanted may name unknown columns.
ColumnSelection(f, wanted) ==
    IF wanted \cap f.columns # {} THEN [f EXCEPT !.columns = wanted \cap @]
    ELSE f

\* if dataset == "player_stats" and 'player_id' in df.columns: aggregate
Aggregate(f) ==
    IF "player_id" \in f.columns THEN [f EXCEPT !.rows = "season_totals"]
    ELSE f

\* the frame the miss path computes and caches
Processed(k, wanted) == Aggregate(ColumnSelection(Source(k), wanted))

\* df.iloc[offset:offset + limit], and on the miss path df.iloc[offset:]
\* then df.iloc[:limit]: the positions of the rows kept, of a frame of 2
Window(offset, limit) == {i \in 1..2 : offset < i /\ i <= offset + limit}

Response(f, offset, limit) ==
    [columns |-> f.columns, rows |-> f.rows, source |-> f.source,
     window |-> Window(offset, limit)]

\* the contents of a frame as the number the cache model stores for it
FrameId(f) ==
    (IF "player_id" \in f.columns THEN 1 ELSE 0)
    + (IF "season" \in f.columns THEN 2 ELSE 0)
    + (IF "yards" \in f.columns THEN 4 ELSE 0)
    + (IF f.rows = "season_totals" THEN 8 ELSE 0)
    + 16 * (f.source - 1)

FrameOf(n) ==
    CHOOSE f \in [source : SmallKeys, columns : SUBSET Columns,
                  rows : {"weekly", "season_totals"}] : FrameId(f) = n

\* GET /v1/data/player_stats?columns=...&offset=...&limit=... for key k;
\* req keeps the request, the response and what the miss path computes
GetDataColumns(k, wanted, offset, limit) ==
    /\ GetData(k, TRUE, FrameId(Processed(k, wanted)))
    /\ req' = [key |-> k, columns |-> wanted, offset |-> offset,
               limit |-> limit, cached |-> ret'.status = "cached",
               response |-> Response(FrameOf(ret'.val), offset, limit),
               miss |-> Response(Processed(k, wanted), offset, limit)]

\* the column whitelists of the requests: none, one column, two columns
\* of which one is player_id, a column the frame does not have
Wanted == {{}, {"season"}, {"player_id", "yards"}, {"other"}}

NextColumns ==
    \/ \E k \in SmallKeys, wanted \in Wanted,
          w \in {<<0, 2>>, <<1, 1>>} :
          GetDataColumns(k, wanted, w[1], w[2])
    \/ Tick /\ UNCHANGED req

SpecColumns ==
    Init /\
    [][NextColumns /\ UNCHANGED <<nsets, loaderVars, th, dag, cb, sched>>]_vars

\* C29: for /v1/data/player_stats a response served from the cache has the
\* rows and the columns of the response the miss path computes for the same
\* request parameters, whatever earlier requests populated the cache under
\* the same key with other columns.
C29_HitEqualsMiss ==
    (req # << >> /\ req.cached) => req.response = req.miss

(***************************************************************************)
(* load_raw_table_incremental called twice in succession, the source       *)
(* returning the same frame both times                                     *)
(***************************************************************************)
\* the task calls load_raw_table_incremental again after the first call
\* has ended
StartAgain ==
    /\ run.status \in {"done", "raised"}
    /\ run.pass = 1
    /\ run' = [Idle EXCEPT !.status = "running", !.df = run.df, !.pass = 2]
    /\ UNCHANGED <<wh, last>>

NextTwice ==
    \/ \E d \in Frames(MaxRows) : StartRun(d)
    \/ LoadAttempt("none", "none")
    \/ StartAgain

SpecTwice ==
    InitLoader /\ [][NextTwice /\ UNCHANGED <<cacheVars, otherVars>>]_vars

\* C30: load_raw_table_incremental is idempotent on table contents: for any
\* initial warehouse (table absent, with or without a primary key) and any
\* non-empty fetched rows, the second of two runs in succession with the
\* same fetched rows leaves the target table holding the rows the first run
\* left; it duplicates no row.
C30_Idempotent ==
    (/\ run.pass = 2
     /\ run.status \in {"done", "raised"}
     /\ ~Empty(last.df)) =>
        wh.tgt.rows = last.pre.tgt.rows

====
